---- MODULE Spec2Model ----
(***************************************************************************)
(* A model of tastypie-client-generator's runtime object model             *)
(* (tastypieclient/fields.py, tastypieclient/resources.py): typed field    *)
(* descriptors with coercion on assignment, Resource construction, and the *)
(* deferred (lazy) to-one / to-many relations.                             *)
(*                                                                         *)
(* Python values are records [t |-> <type tag>, v |-> <text>]; a list or a  *)
(* tuple carries its elements in the field items instead.  All the         *)
(* exceptions of the code are ValueError; the model keeps the raise site   *)
(* as the error kind: "nonnull" (fields.py:171), "readonly" (179), "uuid"  *)
(* (191/194), "datetime" (220-222), "tomany_list" (279), "deferred_url"    *)
(* (351), "required" (resources.py:62).                                    *)
(***************************************************************************)
EXTENDS Integers, Sequences, FiniteSets, TLC

VARIABLES
    decl,                    \* cls._fields: the field declarations of the resource class
    objs,                    \* per Resource instance: its __dict__, or NoObject
    df_instance,             \* DeferredField.instance of the class's to-one descriptor
    df_related_resource_class, \* DeferredField.related_resource_class of that descriptor
    tm_base_url,             \* ToManyField.base_url of the class's to-many descriptor
    nget,                    \* number of requests.get calls made so far
    last,                    \* history: the last operation and its outcome
    relation,                \* history: per instance, its to-one relation as its own operations leave it
    bound,                   \* history: per instance, the URLs its to-many field was last bound to
    assigned,                \* history: per instance and field, whether a non-null value was assigned
    service,                 \* what the server answers: the entry-point and schema documents
    pc,                      \* where ClientBuilder.generate_client stands
    entry_points,            \* the names of the fetched entry points, in the dict's iteration order
    resources,               \* the client_builder.Resource objects built so far
    fp,                      \* the output file: NoFile, or its name and the lines written
    gen_gets,                \* the requests.get calls of the generator, in order
    nwritten                 \* how many resources _write_resource has been called for

\* The state of the object model and the state of a code-generation run
modelVars == <<decl, objs, df_instance, df_related_resource_class, tm_base_url, nget, last,
               relation, bound, assigned>>
genVars == <<service, pc, entry_points, resources, fp, gen_gets, nwritten>>

vars == <<decl, objs, df_instance, df_related_resource_class, tm_base_url, nget, last,
          relation, bound, assigned, service, pc, entry_points, resources, fp, gen_gets,
          nwritten>>

----------------------------------------------------------------------------
(* Bounds *)

MaxInst == 2     \* Resource instances the caller constructs
MaxLen  == 2     \* longest list assigned to a to-many field
MaxGets == 3     \* GET requests per behaviour
MaxResources == 2  \* entry points a service lists
MaxFields == 2   \* fields the schema documents of a service hold together

----------------------------------------------------------------------------
(* Python values *)

None       == [t |-> "none", v |-> ""]
PyStr(s)     == [t |-> "str", v |-> s]
PyInt(s)     == [t |-> "int", v |-> s]
PyBool(s)    == [t |-> "bool", v |-> s]
PyUUID(s) == [t |-> "uuid", v |-> s]
PyDateTime(s) == [t |-> "datetime", v |-> s]
PyList(q)    == [t |-> "list", items |-> q]
PyTuple(q)   == [t |-> "tuple", items |-> q]

NoObject == [t |-> "noobject", v |-> ""]

\* isinstance(value, basestring)
IsString(x) == x.t = "str"

\* Python truth value (`not value` is ~Truthy(value)).  A DeferredList is
\* sized by __len__; a Resource instance and a UUID are always true.
Truthy(x) ==
    CASE x.t = "none"  -> FALSE
      [] x.t = "str"   -> x.v # ""
      [] x.t = "int"   -> x.v # "0"
      [] x.t = "bool"  -> x.v = "True"
      [] x.t = "list"  -> x.items # <<>>
      [] x.t = "tuple" -> x.items # <<>>
      [] x.t = "dlist" -> x.items # <<>>
      [] OTHER         -> TRUE

\* The strings the model assigns.
UuidStr1    == "12345678-1234-5678-1234-567812345678"
UuidStr1Alt == "{12345678-1234-5678-1234-567812345678}"
UuidStr2    == "87654321-4321-8765-4321-876543218765"
DateStr     == "2013-05-01T10:00:00"

\* uuid.UUID(hex).hex: the 32 hex digits left after stripping braces, "urn:",
\* "uuid:" and hyphens; "" when what is left is not 32 hex digits.
UuidHex(s) ==
    CASE s = UuidStr1    -> "12345678123456781234567812345678"
      [] s = UuidStr1Alt -> "12345678123456781234567812345678"
      [] s = UuidStr2    -> "87654321432187654321876543218765"
      [] OTHER           -> ""

\* str.lower()
Lower(s) ==
    CASE s \in {"false", "FALSE", "False"} -> "false"
      [] s \in {"true", "TRUE", "True"}    -> "true"
      [] OTHER                             -> s

\* unicode(value).  Payloads of int and bool already are the Python text.
Unicode(x) ==
    CASE x.t \in {"str", "int", "bool"} -> PyStr(x.v)
      [] x.t = "none"                   -> PyStr("None")
      [] x.t = "uuid"                   -> PyStr(IF x.v = UuidHex(UuidStr1) THEN UuidStr1 ELSE UuidStr2)
      [] x.t = "datetime"               -> PyStr("2013-05-01 10:00:00")
      [] OTHER                          -> PyStr("<repr>")

\* dateutil.parser.parse(value): a datetime for a date string; ValueError for
\* another string; AttributeError (turned into ValueError by the caller) for a
\* value that is not text.
DateParse(x) ==
    IF IsString(x) /\ x.v = DateStr THEN PyDateTime(DateStr) ELSE NoObject

----------------------------------------------------------------------------
(* URLs.  A URL string is modelled by what urlparse makes of it: its netloc *)
(* ("" for a relative reference) and its path, as segments.                 *)

UrlBlag1    == "/api/v1/blag/1/"
UrlPost1    == "/api/v1/post/1/"
UrlPost2Abs == "http://other.example/api/v1/post/2/"
UrlNoMatch  == "/static/readme/"

BaseUrls == {"http://host"}

\* urlparse(value).netloc
Netloc(s) == IF s = UrlPost2Abs THEN "other.example" ELSE ""

\* urlparse(value).path
Path(s) ==
    CASE s = UrlBlag1    -> <<"api", "v1", "blag", "1">>
      [] s = UrlPost1    -> <<"api", "v1", "post", "1">>
      [] s = UrlPost2Abs -> <<"api", "v1", "post", "2">>
      [] s = UrlNoMatch  -> <<"static", "readme">>
      [] OTHER           -> <<s>>

\* The URL a deferred field requests: value itself when it names a host,
\* urljoin(instance.base_url, value) otherwise.
GettableUrl(base_url, s) ==
    [host |-> IF Netloc(s) = "" THEN base_url ELSE "http://" \o Netloc(s),
     path |-> Path(s)]

\* Resource.__subclasses__() and cls.__subclasses__(), in definition order.
Subclasses(c) ==
    CASE c = "Resource" -> <<"User", "Blag", "Post">>
      [] c = "Blag"     -> <<"Entry">>
      [] OTHER          -> <<>>

\* cls.list_endpoint, as path segments
list_endpoint(c) ==
    CASE c = "User" -> <<"api", "v1", "user">>
      [] c = "Blag" -> <<"api", "v1", "blag">>
      [] c = "Post" -> <<"api", "v1", "post">>
      [] c = "Entry" -> <<"api", "v1", "post">>
      [] OTHER      -> <<"api", "v1", c>>

\* path.startswith(prefix)
StartsWith(path, prefix) ==
    /\ Len(prefix) <= Len(path)
    /\ SubSeq(path, 1, Len(prefix)) = prefix

\* The walk that visits the subclasses of a class right after the class
RECURSIVE WalkDepthFirst(_, _, _)
WalkDepthFirst(subclasses, i, path) ==
    IF i > Len(subclasses) THEN "None"
    ELSE IF StartsWith(path, list_endpoint(subclasses[i])) THEN subclasses[i]
    ELSE WalkDepthFirst(SubSeq(subclasses, 1, i) \o Subclasses(subclasses[i])
                            \o SubSeq(subclasses, i + 1, Len(subclasses)), i + 1, path)

\* The loop of get_related_resource_class: the list grows at its end while
\* the loop walks it.
RECURSIVE WalkSubclasses(_, _, _)
WalkSubclasses(subclasses, i, path) ==
    IF i > Len(subclasses) THEN "None"
    ELSE IF StartsWith(path, list_endpoint(subclasses[i])) THEN subclasses[i]
    ELSE WalkSubclasses(subclasses \o Subclasses(subclasses[i]), i + 1, path)

get_related_resource_class(uri) ==
    WalkSubclasses(Subclasses("Resource"), 1, uri.path)

----------------------------------------------------------------------------
(* Assignment.  A setter works on st = [d, cache, tmb, err]: the __dict__  *)
(* of the instance assigned to, DeferredField.instance and                *)
(* ToManyField.base_url of the class's descriptors, and the error raised   *)
(* ("ok" when none).  What was written before a raise stays written.       *)

Raise(st, e) == [st EXCEPT !.err = e]

\* instance.__dict__[name] = value
Store(d, name, value) == (name :> value) @@ d

\* Field.__set__
Field__set__(fl, st, name, value) ==
    IF ~fl.nullable /\ value = None THEN Raise(st, "nonnull")
    ELSE IF fl.readonly /\ name \in DOMAIN st.d /\ st.d[name] # None
         THEN Raise(st, "readonly")
    ELSE [st EXCEPT !.d = Store(st.d, name, value)]

\* UUIDField.__set__
UUIDField__set__(fl, st, name, value) ==
    IF ~Truthy(value) \/ value.t = "uuid" THEN Field__set__(fl, st, name, value)
    ELSE IF IsString(value)
         THEN IF UuidHex(value.v) = "" THEN Raise(st, "uuid")
              ELSE Field__set__(fl, st, name, PyUUID(UuidHex(value.v)))
    ELSE Raise(st, "uuid")

\* CharField.__set__
CharField__set__(fl, st, name, value) ==
    LET v1 == IF ~Truthy(value) THEN PyStr("") ELSE value
    IN  Field__set__(fl, st, name, Unicode(v1))

\* BooleanField.__set__: for text, line 209 assigns True after the test of
\* line 207, whatever the test decided.
BooleanField__set__(fl, st, name, value) ==
    LET v1 == IF IsString(value)
              THEN LET v0 == IF Lower(value.v) = "false" THEN PyBool("False") ELSE value
                   IN  PyBool("True")
              ELSE IF value # None
                   THEN PyBool(IF Truthy(value) THEN "True" ELSE "False")
                   ELSE value
    IN  Field__set__(fl, st, name, v1)

\* DateTimeField.__set__
DateTimeField__set__(fl, st, name, value) ==
    IF Truthy(value) /\ DateParse(value) = NoObject THEN Raise(st, "datetime")
    ELSE Field__set__(fl, st, name, IF Truthy(value) THEN DateParse(value) ELSE value)

\* __set__ that clears the descriptor's cache before it looks at the value
DeferredField__set__clears_first(fl, st, name, value) ==
    IF ~IsString(value) THEN Raise([st EXCEPT !.cache = None], "deferred_url")
    ELSE Field__set__(fl, [st EXCEPT !.cache = None], name, value)

\* DeferredField.__delete__ then Field.__set__, for the class's descriptor
DeferredField__set__(fl, st, name, value) ==
    IF ~IsString(value) THEN Raise(st, "deferred_url")
    ELSE Field__set__(fl, [st EXCEPT !.cache = None], name, value)

\* "_deferred_%s_%s" % (self.name, count); count is 0-based
DeferredName(name, count) == "_deferred_" \o name \o "_" \o ToString(count)

\* A DeferredField as Field.__init__ and DeferredField.__init__ leave it
NewDeferredField(name, related_resource_class) ==
    [name |-> name, instance |-> None, related_resource_class |-> related_resource_class]

DefaultFlags == [nullable |-> FALSE, readonly |-> FALSE]

\* The loop of ToManyField.__set__ from element k (1-based) on: each new
\* DeferredField stores its URL in the instance's __dict__ under its own name.
RECURSIVE SetDeferreds(_, _, _, _)
SetDeferreds(st, name, q, k) ==
    IF k > Len(q) \/ st.err # "ok" THEN st
    ELSE IF ~IsString(q[k]) THEN Raise(st, "deferred_url")
    ELSE SetDeferreds(Field__set__(DefaultFlags, st, DeferredName(name, k - 1), q[k]),
                      name, q, k + 1)

\* DeferredList(deferreds, instance, owner)
DeferredList(name, n, related_resource_class) ==
    [t |-> "dlist",
     items |-> [k \in 1..n |-> NewDeferredField(DeferredName(name, k - 1), related_resource_class)]]

\* ToManyField.__set__
ToManyField__set__(fl, st, name, value) ==
    IF ~Truthy(value) THEN Field__set__(fl, st, name, value)
    ELSE LET st1 == [st EXCEPT !.tmb = st.d["base_url"]]
         IN  IF value.t # "list" THEN Raise(st1, "tomany_list")
             ELSE LET st2 == SetDeferreds(st1, name, value.items, 1)
                  IN  IF st2.err # "ok" THEN st2
                      ELSE Field__set__(fl, st2, name,
                                        DeferredList(name, Len(value.items), fl.related_resource_class))

\* setattr(instance, name, value): the __set__ of the descriptor declared
\* under that name
SetAttr(st, name, value) ==
    LET fl == decl[name]
    IN  CASE fl.kind = "string"   -> CharField__set__(fl, st, name, value)
          [] fl.kind = "boolean"  -> BooleanField__set__(fl, st, name, value)
          [] fl.kind = "datetime" -> DateTimeField__set__(fl, st, name, value)
          [] fl.kind = "uuid"     -> UUIDField__set__(fl, st, name, value)
          [] fl.kind = "toOne"    -> DeferredField__set__(fl, st, name, value)
          [] fl.kind = "toMany"   -> ToManyField__set__(fl, st, name, value)

\* The loop of Resource.__init__ over self._fields, visited in `order`
RECURSIVE InitFields(_, _, _, _)
InitFields(st, order, k, kwargs) ==
    IF k > Len(order) \/ st.err # "ok" THEN st
    ELSE LET field_name == order[k]
         IN  IF decl[field_name].required /\ field_name \notin DOMAIN kwargs
             THEN Raise(st, "required")
             ELSE InitFields(SetAttr(st, field_name,
                                     IF field_name \in DOMAIN kwargs
                                     THEN kwargs[field_name] ELSE None),
                             order, k + 1, kwargs)

----------------------------------------------------------------------------
(* Reading a deferred relation *)

\* What the server answers to a GET: a body the related class accepts, no
\* usable answer (requests.get or json.loads raises), or a body the related
\* class's constructor rejects.
Outcomes == {"ok", "fetch_fail", "bad_data"}

\* related_resource_class(base_url=instance.base_url, **data); id tells the
\* objects of different fetches apart
ResourceObj(cls, url, base_url, id) ==
    [t |-> "resource", attrs |-> [cls |-> cls, url |-> url, base_url |-> base_url, id |-> id]]

GetResult(df, err, ret, gets) == [df |-> df, err |-> err, ret |-> ret, gets |-> gets]

\* __get__ that keeps what it built for a failed resolution as the instance
DeferredField__get__keeps_failure(df, d, outcome, id) ==
    IF Truthy(df.instance) THEN GetResult(df, "ok", df.instance, <<>>)
    ELSE IF df.name \notin DOMAIN d THEN GetResult(df, "AttributeError", None, <<>>)
    ELSE LET value == d[df.name]
         IN  IF ~Truthy(value) THEN GetResult(df, "ok", value, <<>>)
             ELSE LET url == GettableUrl(d["base_url"].v, value.v)
                      rrc == IF df.related_resource_class = "None"
                             THEN get_related_resource_class(url)
                             ELSE df.related_resource_class
                      obj == ResourceObj(rrc, url, d["base_url"].v, id)
                      df1 == [df EXCEPT !.instance = obj]
                  IN  IF outcome = "fetch_fail" THEN GetResult(df1, "fetch", None, <<url>>)
                      ELSE IF rrc = "None" THEN GetResult(df1, "TypeError", None, <<url>>)
                      ELSE IF outcome = "bad_data" THEN GetResult(df1, "construct", None, <<url>>)
                      ELSE GetResult(df1, "ok", obj, <<url>>)

\* DeferredField.__get__ of the DeferredField df (its name, instance and
\* related_resource_class) on the instance whose __dict__ is d
DeferredField__get__(df, d, outcome, id) ==
    IF Truthy(df.instance) THEN GetResult(df, "ok", df.instance, <<>>)
    ELSE IF df.name \notin DOMAIN d THEN GetResult(df, "AttributeError", None, <<>>)
    ELSE LET value == d[df.name]
         IN  IF ~Truthy(value) THEN GetResult(df, "ok", value, <<>>)
             ELSE LET url  == GettableUrl(d["base_url"].v, value.v)
                      rrc  == IF df.related_resource_class = "None"
                              THEN get_related_resource_class(url)
                              ELSE df.related_resource_class
                      df1  == [df EXCEPT !.related_resource_class = rrc]
                      obj  == ResourceObj(rrc, url, d["base_url"].v, id)
                  IN  IF outcome = "fetch_fail" THEN GetResult(df, "fetch", None, <<url>>)
                      ELSE IF rrc = "None" THEN GetResult(df1, "TypeError", None, <<url>>)
                      ELSE IF outcome = "bad_data" THEN GetResult(df1, "construct", None, <<url>>)
                      ELSE GetResult([df1 EXCEPT !.instance = obj], "ok", obj, <<url>>)

----------------------------------------------------------------------------
(* The resource classes the model declares, and the values it assigns *)

ScalarKinds == {"string", "boolean", "datetime", "uuid"}

FieldDecl(kind, nullable, readonly, required, related_resource_class) ==
    [kind |-> kind, nullable |-> nullable, readonly |-> readonly, required |-> required,
     related_resource_class |-> related_resource_class]

\* class User(Resource): val = <a scalar field>(...)
ClassesField ==
    { ("val" :> FieldDecl(k, n, ro, rq, "None")) :
        k \in ScalarKinds, n \in BOOLEAN, ro \in BOOLEAN, rq \in BOOLEAN }

\* class User(Resource): blag = DeferredField(...)
ClassesToOne ==
    { ("blag" :> FieldDecl("toOne", n, ro, FALSE, c)) :
        n \in BOOLEAN, ro \in BOOLEAN, c \in {"None", "Blag"} }

\* class User(Resource): posts = ToManyField(...)
ClassesToMany ==
    { ("posts" :> FieldDecl("toMany", n, ro, FALSE, "None")) :
        n \in BOOLEAN, ro \in BOOLEAN }

\* class User(Resource): blag = DeferredField(...); posts = ToManyField(...)
ClassesRelations ==
    { ("blag" :> FieldDecl("toOne", FALSE, FALSE, FALSE, c))
      @@ ("posts" :> FieldDecl("toMany", FALSE, FALSE, FALSE, c)) : c \in {"None", "Blag"} }

\* class User(Resource): val = <a scalar field>(...); opt = BooleanField(...)
ClassesResource ==
    { ("val" :> FieldDecl(k, n, ro, rq, "None")) @@ ("opt" :> FieldDecl("boolean", n2, FALSE, rq2, "None")) :
        k \in ScalarKinds, n \in BOOLEAN, ro \in BOOLEAN, rq \in BOOLEAN,
        n2 \in BOOLEAN, rq2 \in BOOLEAN }

ScalarInputs ==
    { None, PyStr(""), PyStr("false"), PyStr("FALSE"), PyStr("False"),
      PyStr("abc"), PyStr(UuidStr1), PyStr(UuidStr1Alt), PyStr(UuidStr2), PyStr(DateStr),
      PyInt("0"), PyInt("1"), PyBool("True"), PyBool("False"),
      PyUUID(UuidHex(UuidStr1)) }

RelInputs ==
    { None, PyStr(""), PyInt("1"),
      PyStr(UrlBlag1), PyStr(UrlPost2Abs), PyStr(UrlNoMatch) }

ListElems == { PyStr(UrlPost1), PyStr(UrlPost2Abs), PyInt("1") }

SeqsUpTo(S, n) == UNION { [1..m -> S] : m \in 0..n }

ListInputs ==
    { None, PyInt("0"), PyStr(UrlPost1), PyTuple(<<PyStr(UrlPost1)>>) }
    \cup { PyList(q) : q \in SeqsUpTo(ListElems, MaxLen) }

\* The URLs an instance of such a class is constructed with
KwargsRelations ==
    { ("blag" :> u) @@ ("posts" :> PyList(q)) :
        u \in {PyStr(UrlBlag1), PyStr(UrlNoMatch)},
        q \in SeqsUpTo({PyStr(UrlPost1), PyStr(UrlNoMatch)}, MaxLen) }

\* The values passed for the fields of a class that declares two
KwargInputs ==
    { None, PyStr("abc"), PyStr(UuidStr1), PyStr(DateStr), PyBool("True") }

InputsFor(name) ==
    CASE decl[name].kind = "toOne"    -> RelInputs
      [] decl[name].kind = "toMany"   -> ListInputs
      [] Cardinality(DOMAIN decl) > 1 -> KwargInputs
      [] OTHER                        -> ScalarInputs

\* The orders in which a dict of these names can be iterated
Orders(S) == { q \in [1..Cardinality(S) -> S] : \A a, b \in DOMAIN q : a # b => q[a] # q[b] }

----------------------------------------------------------------------------
(* The code generator, tastypie-client/client_builder.py: text             *)

\* The characters of names, in code point order
CodePoints == "0123456789ABCDEFGHIJKLMNOPQRSTUVWXYZ_abcdefghijklmnopqrstuvwxyz"
Uppers == "ABCDEFGHIJKLMNOPQRSTUVWXYZ"
Lowers == "abcdefghijklmnopqrstuvwxyz"

\* s.find(c) + 1 for a character c: 0 when s does not hold it
Find(s, c) ==
    IF \E i \in 1..Len(s) : SubSeq(s, i, i) = c
    THEN CHOOSE i \in 1..Len(s) : SubSeq(s, i, i) = c /\ \A j \in 1..(i - 1) : SubSeq(s, j, j) # c
    ELSE 0

ord(c) == Find(CodePoints, c)

\* a < b on unicode strings: by code point, a proper prefix first
RECURSIVE StrLess(_, _)
StrLess(a, b) ==
    IF b = "" THEN FALSE
    ELSE IF a = "" THEN TRUE
    ELSE IF ord(SubSeq(a, 1, 1)) # ord(SubSeq(b, 1, 1))
         THEN ord(SubSeq(a, 1, 1)) < ord(SubSeq(b, 1, 1))
         ELSE StrLess(SubSeq(a, 2, Len(a)), SubSeq(b, 2, Len(b)))

\* s.endswith(suffix)
endswith(s, suffix) ==
    /\ Len(suffix) <= Len(s)
    /\ SubSeq(s, Len(s) - Len(suffix) + 1, Len(s)) = suffix

\* s.replace(old, new) for a character old
RECURSIVE replace(_, _, _)
replace(s, old, new) ==
    IF s = "" THEN ""
    ELSE (IF SubSeq(s, 1, 1) = old THEN new ELSE SubSeq(s, 1, 1))
         \o replace(SubSeq(s, 2, Len(s)), old, new)

\* s.title(): a letter after a character that is no letter is upper-cased,
\* a letter after a letter lower-cased
RECURSIVE TitleFrom(_, _)
TitleFrom(s, in_word) ==
    IF s = "" THEN ""
    ELSE LET c  == SubSeq(s, 1, 1)
             lo == Find(Lowers, c)
             up == Find(Uppers, c)
             out == IF in_word THEN (IF up > 0 THEN SubSeq(Lowers, up, up) ELSE c)
                    ELSE (IF lo > 0 THEN SubSeq(Uppers, lo, lo) ELSE c)
         IN  out \o TitleFrom(SubSeq(s, 2, Len(s)), lo > 0 \/ up > 0)

title(s) == TitleFrom(s, FALSE)

\* sorted(items, key=itemgetter(0)) on (name, field) items; the sort is stable
RECURSIVE InsertByName(_, _)
InsertByName(q, item) ==
    IF q = <<>> THEN <<item>>
    ELSE IF StrLess(item.name, Head(q).name) THEN <<item>> \o q
    ELSE <<Head(q)>> \o InsertByName(Tail(q), item)

RECURSIVE sorted(_)
sorted(items) ==
    IF items = <<>> THEN <<>>
    ELSE InsertByName(sorted(SubSeq(items, 1, Len(items) - 1)), items[Len(items)])

----------------------------------------------------------------------------
(* The code generator: CodeGeneratorBackend.  cg = [code, level, err]; an   *)
(* exception raised while cg is in use is kept in cg.err, and the calls     *)
(* after it do nothing.                                                      *)

tab_chars == "    "

RECURSIVE Tabs(_)
Tabs(level) == IF level = 0 THEN "" ELSE tab_chars \o Tabs(level - 1)

CodeGeneratorBackend == [code |-> <<>>, level |-> 0, err |-> "ok"]

write(cg, string) ==
    IF cg.err # "ok" THEN cg
    ELSE [cg EXCEPT !.code = Append(@, Tabs(cg.level) \o string \o "\n")]

indent(cg) ==
    IF cg.err # "ok" THEN cg ELSE [cg EXCEPT !.level = @ + 1]

dedent(cg) ==
    IF cg.err # "ok" THEN cg
    ELSE IF cg.level = 0 THEN [cg EXCEPT !.err = "SyntaxError"]
    ELSE [cg EXCEPT !.level = @ - 1]

\* The import block ClientBuilder._write_import_block writes
ImportBlock ==
    LET c1 == write(CodeGeneratorBackend, "from tastypieclient.fields import CharField")
        c2 == write(c1, "from tastypieclient.fields import BooleanField")
        c3 == write(c2, "from tastypieclient.fields import DateTimeField")
        c4 == write(c3, "from tastypieclient.fields import DeferredField")
        c5 == write(c4, "from tastypieclient.fields import ToManyField")
        c6 == write(c5, "from tastypieclient.fields import UUIDField")
        c7 == write(c6, "from tastypieclient.resources import Resource")
    IN  write(c7, "").code

----------------------------------------------------------------------------
(* The code generator: Field, Schema, Resource                              *)

field_types ==
    [boolean |-> "BooleanField", string |-> "CharField", to_one |-> "DeferredField",
     to_many |-> "ToManyField", datetime |-> "DateTimeField"]

\* The first line of a field declaration
FieldLine(name, field_cls) == name \o " = " \o field_cls \o "("

\* A lookup that falls back to the to-one class for a key the dict lacks
FieldTypesGetOrToOne(key) ==
    IF key \in DOMAIN field_types THEN field_types[key] ELSE field_types["to_one"]

\* field_types[key]; a key the dict lacks raises KeyError
FieldTypesGet(key) == IF key \in DOMAIN field_types THEN field_types[key] ELSE "KeyError"

\* write_field with the declared type looked up before the name is examined
write_field_by_type(cg, field) ==
    LET by_type == IF field.type = "related" THEN FieldTypesGet(field.related_type)
                   ELSE FieldTypesGet(field.type)
        field_cls == IF by_type # "KeyError" THEN by_type
                     ELSE IF endswith(field.name, "uuid") THEN "UUIDField"
                     ELSE "KeyError"
    IN  IF field_cls = "KeyError"
        THEN [cg EXCEPT !.err = IF @ = "ok" THEN "KeyError" ELSE @]
        ELSE dedent(write(indent(write(cg, FieldLine(field.name, field_cls))),
                          "unique=" \o field.unique \o ")"))

\* Field.write_field
write_field(cg, field) ==
    LET field_cls == IF endswith(field.name, "uuid") THEN "UUIDField"
                     ELSE IF field.type = "related" THEN FieldTypesGet(field.related_type)
                     ELSE FieldTypesGet(field.type)
    IN  IF field_cls = "KeyError"
        THEN [cg EXCEPT !.err = IF @ = "ok" THEN "KeyError" ELSE @]
        ELSE LET c1 == indent(write(cg, FieldLine(field.name, field_cls)))
                 c2 == write(c1, "help_text=\"" \o replace(field.help_text, "\"", "\\\"") \o "\",")
                 c3 == write(c2, "blank=" \o field.blank \o ",")
                 c4 == write(c3, "nullable=" \o field.nullable \o ",")
                 c5 == write(c4, "readonly=" \o field.readonly \o ",")
                 c6 == write(c5, "unique=" \o field.unique \o ")")
             IN  dedent(c6)

\* field_list that hands out the dict's items as the dict iterates them
field_list_unsorted(schema) == schema.fields

\* Schema.field_list
field_list(schema) == sorted(schema.fields)

\* Resource._write_fields
RECURSIVE WriteFields(_, _, _)
WriteFields(cg, items, k) ==
    IF k > Len(items) THEN cg
    ELSE WriteFields(write_field(cg, items[k]), items, k + 1)

_write_fields(cg, resource) == WriteFields(cg, field_list(resource.schema), 1)

\* Resource._write_class_constants
_write_class_constants(cg, resource) ==
    LET c1 == write(cg, "list_endpoint = '" \o resource.list_endpoint \o "'")
        c2 == write(c1, "default_format = '" \o resource.schema.default_format \o "'")
        c3 == write(c2, "default_limit = " \o resource.schema.default_limit)
    IN  write(c3, "")

\* The class line of a resource
ClassLine(name) == "class " \o replace(title(name), "_", "") \o "(Resource):"

\* Resource._write_generated_source: what leaving the with block hands to
\* outstream.writelines, and the exception that leaves it, if any
_write_generated_source(resource) ==
    LET c1 == indent(write(CodeGeneratorBackend, ClassLine(resource.name)))
        c2 == _write_class_constants(c1, resource)
        c3 == _write_fields(c2, resource)
    IN  dedent(c3)

\* ClientBuilder._write_resource: the lines the file receives, and the exception
_write_resource(resource) ==
    LET cg == _write_generated_source(resource)
    IN  IF cg.err # "ok" THEN cg
        ELSE [cg EXCEPT !.code = @ \o write(write(CodeGeneratorBackend, ""), "").code]

----------------------------------------------------------------------------
(* The code generator: the service it reads, and the run                    *)

\* The resources a service can list, in the order of its entry-point document
ResourceNames == <<"user", "blag_post", "comment">>

FieldNames == {"uuid", "owner_uuid", "name", "uuid_name"}

\* The "type" of a schema field ("integer": a type field_types does not hold)
\* and, for "related", its "related_type" ("None": the document gives none)
SchemaTypes == {"string", "boolean", "datetime", "integer", "related"}
RelatedTypes == {"to_one", "to_many", "m2m", "None"}

\* A field of a schema document, as Field.__init__ keeps it
FieldDoc(name, type, related_type) ==
    [name |-> name, type |-> type, related_type |-> related_type, help_text |-> "",
     blank |-> "False", nullable |-> "False", readonly |-> "False", unique |-> "False"]

FieldDocs ==
    { FieldDoc(n, t, r) : n \in FieldNames, t \in SchemaTypes \ {"related"}, r \in {"None"} }
    \cup { FieldDoc(n, "related", r) : n \in FieldNames, r \in RelatedTypes }

\* The "fields" of a schema document of at most n fields, in document order
FieldSeqs(n) ==
    { q \in SeqsUpTo(FieldDocs, n) : \A a, b \in DOMAIN q : a # b => q[a].name # q[b].name }

\* The field lists of k schema documents that hold at most n fields together
RECURSIVE SchemaFields(_, _)
SchemaFields(k, n) ==
    IF k = 0 THEN {<<>>}
    ELSE UNION { { <<q>> \o rest : rest \in SchemaFields(k - 1, n - Len(q)) } : q \in FieldSeqs(n) }

\* A service: its entry points in document order, and the fields of their schemas
Services ==
    UNION { { [names |-> SubSeq(ResourceNames, 1, k), fields |-> fs] : fs \in SchemaFields(k, MaxFields) } :
            k \in 0..MaxResources }

Timestamps == {"1383436800"}

NoFile == [state |-> "none", name |-> "", lines |-> <<>>]

\* The generator has not been started
GenIdle ==
    /\ service = [names |-> <<>>, fields |-> <<>>]
    /\ pc = "idle"
    /\ entry_points = <<>>
    /\ resources = <<>>
    /\ fp = NoFile
    /\ gen_gets = <<>>
    /\ nwritten = 0

\* The base URLs the generator is started with
ClientBaseUrls == {"http://host/api/v1/"}

\* Client.base_host: scheme, "://" and netloc of base_url
base_host(base_url) ==
    LET sep  == CHOOSE i \in 1..Len(base_url) :
                    /\ SubSeq(base_url, i, i + 2) = "://"
                    /\ \A j \in 1..(i - 1) : SubSeq(base_url, j, j + 2) # "://"
        ends == { i \in (sep + 3)..Len(base_url) : SubSeq(base_url, i, i) = "/" }
        stop == IF ends = {} THEN Len(base_url) + 1
                ELSE CHOOSE i \in ends : \A j \in ends : i <= j
    IN  SubSeq(base_url, 1, stop - 1)

\* The entry-point document's "list_endpoint" and "schema" of a resource
ListEndpointOf(name) == "/api/v1/" \o name \o "/"
SchemaUrlOf(name) == "/api/v1/" \o name \o "/schema/"

\* Position of name in the entry-point document
DocIndex(name) == CHOOSE k \in DOMAIN service.names : service.names[k] = name

\* entry_points = self._get_entry_points()
GetEntryPoints(base_url, outcome, order) ==
    /\ pc = "start"
    /\ gen_gets' = Append(gen_gets, base_url)
    /\ IF outcome = "ok"
       THEN /\ entry_points' = order
            /\ pc' = "resources"
       ELSE /\ pc' = "aborted"
            /\ UNCHANGED entry_points
    /\ UNCHANGED <<service, resources, fp, nwritten>>
    /\ UNCHANGED modelVars

\* Resource(self.client, name, **entry_point), with the Schema it fetches
NewResource(base_url, outcome, order) ==
    /\ pc = "resources"
    /\ Len(resources) < Len(entry_points)
    /\ LET name == entry_points[Len(resources) + 1]
           doc  == service.fields[DocIndex(name)]
       IN  /\ order \in Orders(DOMAIN doc)
           /\ gen_gets' = Append(gen_gets, base_host(base_url) \o SchemaUrlOf(name))
           /\ IF outcome = "ok"
              THEN /\ resources' = Append(resources,
                          [name |-> name, list_endpoint |-> ListEndpointOf(name),
                           schema |-> [default_format |-> "json", default_limit |-> "20",
                                       fields |-> [k \in DOMAIN doc |-> doc[order[k]]]]])
                   /\ UNCHANGED pc
              ELSE /\ pc' = "aborted"
                   /\ UNCHANGED resources
    /\ UNCHANGED <<service, entry_points, fp, nwritten>>
    /\ UNCHANGED modelVars

\* The file opened as soon as the entry points are known, before the schemas
\* of the resources are fetched
OpenFileEarly(module_name, now) ==
    /\ pc = "resources"
    /\ fp' = [state |-> "open", name |-> module_name \o ".py." \o now, lines |-> ImportBlock]
    /\ pc' = "writing"
    /\ UNCHANGED <<service, entry_points, resources, gen_gets, nwritten>>
    /\ UNCHANGED modelVars

\* open(fname, 'w') and self._write_import_block(fp).  The loop variable of
\* the list comprehension has by now replaced the argument name.
OpenFile(module_name, now) ==
    /\ pc = "resources"
    /\ Len(resources) = Len(entry_points)
    /\ LET name == IF entry_points = <<>> THEN module_name
                   ELSE entry_points[Len(entry_points)]
       IN  fp' = [state |-> "open", name |-> name \o ".py." \o now, lines |-> ImportBlock]
    /\ pc' = "writing"
    /\ UNCHANGED <<service, entry_points, resources, gen_gets, nwritten>>
    /\ UNCHANGED modelVars

\* self._write_resource(fp, resource) for the next resource
WriteResource ==
    /\ pc = "writing"
    /\ nwritten < Len(resources)
    /\ LET cg == _write_resource(resources[nwritten + 1])
       IN  /\ fp' = [fp EXCEPT !.lines = @ \o cg.code,
                               !.state = IF cg.err = "ok" THEN @ ELSE "closed"]
           /\ pc' = IF cg.err = "ok" THEN pc ELSE "aborted"
    /\ nwritten' = nwritten + 1
    /\ UNCHANGED <<service, entry_points, resources, gen_gets>>
    /\ UNCHANGED modelVars

\* The with block of generate_client ends
CloseFile ==
    /\ pc = "writing"
    /\ nwritten = Len(resources)
    /\ fp' = [fp EXCEPT !.state = "closed"]
    /\ pc' = "done"
    /\ UNCHANGED <<service, entry_points, resources, gen_gets, nwritten>>
    /\ UNCHANGED modelVars

----------------------------------------------------------------------------
(* State *)

Result(op, inst, field, arg, err, ret, gets) ==
    [op |-> op, inst |-> inst, field |-> field, arg |-> arg, err |-> err,
     ret |-> ret, gets |-> gets]

Relation(st, obj) == [st |-> st, obj |-> obj]

\* The field of the class that is of this kind, "" when there is none
FieldOfKind(kind) ==
    IF \E f \in DOMAIN decl : decl[f].kind = kind
    THEN CHOOSE f \in DOMAIN decl : decl[f].kind = kind
    ELSE ""

\* History: the state of instance i's to-one relation as its own operations
\* leave it.  "pending": a URL is bound and not read since; "resolved": the
\* last read returned obj; "reset": a URL was bound while resolved;
\* "invalidated": deleted while resolved; "unknown": after a rejected write.
RelationAfterSet(r, ok) ==
    IF ~ok THEN Relation("unknown", None)
    ELSE IF r.st \in {"resolved", "reset"} THEN Relation("reset", r.obj)
    ELSE Relation("pending", None)

RelationAfterDelete(r) ==
    IF r.st = "resolved" THEN Relation("invalidated", r.obj) ELSE r

RelationAfterGet(r, res) ==
    IF res.err = "ok" /\ res.ret.t = "resource" THEN Relation("resolved", res.ret) ELSE r

\* History: the URLs of the list a to-many assignment bound, <<>> for another value
UrlsOf(value) ==
    IF value.t = "list" THEN [k \in 1..Len(value.items) |-> value.items[k].v] ELSE <<>>

\* History: whether a non-null value was assigned to a field before:
\* "none", "tried" (only rejected ones), "assigned" (one was stored)
AssignedAfter(h, value, ok) ==
    IF value = None THEN h
    ELSE IF ok THEN "assigned"
    ELSE IF h = "none" THEN "tried" ELSE h

InitOf(classes) ==
    /\ decl \in classes
    /\ objs = [i \in 1..MaxInst |-> NoObject]
    /\ df_instance = None
    /\ df_related_resource_class =
           IF "blag" \in DOMAIN decl THEN decl["blag"].related_resource_class ELSE "None"
    /\ tm_base_url = None
    /\ nget = 0
    /\ last = Result("none", 0, "", None, "ok", None, <<>>)
    /\ relation = [i \in 1..MaxInst |-> Relation("unset", None)]
    /\ bound = [i \in 1..MaxInst |-> <<>>]
    /\ assigned = [i \in 1..MaxInst |-> [f \in DOMAIN decl |-> "none"]]
    /\ GenIdle

\* kwargs.get(field_name, None)
KwargsGet(kwargs, field_name) ==
    IF field_name \in DOMAIN kwargs THEN kwargs[field_name] ELSE None

\* obj = User(base_url, **kwargs): Resource.__init__
Construct(i, base_url, kwargs, order) ==
    /\ objs[i] = NoObject
    /\ \A j \in 1..(i - 1) : objs[j] # NoObject
    /\ LET st0 == [d |-> ("base_url" :> PyStr(base_url)), cache |-> df_instance,
                   tmb |-> tm_base_url, err |-> "ok"]
           st  == InitFields(st0, order, 1, kwargs)
           ok  == st.err = "ok"
           one == FieldOfKind("toOne")
           many == FieldOfKind("toMany")
       IN  /\ objs' = [objs EXCEPT ![i] = IF ok THEN st.d ELSE NoObject]
           /\ df_instance' = st.cache
           /\ tm_base_url' = st.tmb
           /\ last' = Result("init", i, "", [t |-> "kwargs", kw |-> kwargs], st.err, None, <<>>)
           /\ relation' = [relation EXCEPT ![i] =
                              IF ok /\ one # "" THEN Relation("pending", None) ELSE @]
           /\ bound' = [bound EXCEPT ![i] =
                              IF ok /\ many # "" THEN UrlsOf(KwargsGet(kwargs, many)) ELSE @]
           /\ assigned' = [assigned EXCEPT ![i] =
                              IF ok THEN [f \in DOMAIN decl |->
                                            AssignedAfter("none", KwargsGet(kwargs, f), TRUE)]
                              ELSE @]
    /\ UNCHANGED <<decl, df_related_resource_class, nget>>
    /\ UNCHANGED genVars

\* obj.<name> = value
Assign(i, name, value) ==
    /\ objs[i] # NoObject
    /\ LET st == SetAttr([d |-> objs[i], cache |-> df_instance, tmb |-> tm_base_url,
                          err |-> "ok"], name, value)
           ok == st.err = "ok"
       IN  /\ objs' = [objs EXCEPT ![i] = st.d]
           /\ df_instance' = st.cache
           /\ tm_base_url' = st.tmb
           /\ last' = Result("set", i, name, value, st.err, None, <<>>)
           /\ relation' = [relation EXCEPT ![i] =
                              IF decl[name].kind = "toOne" THEN RelationAfterSet(@, ok) ELSE @]
           /\ bound' = [bound EXCEPT ![i] =
                              IF decl[name].kind = "toMany" /\ ok THEN UrlsOf(value) ELSE @]
           /\ assigned' = [assigned EXCEPT ![i][name] = AssignedAfter(@, value, ok)]
    /\ UNCHANGED <<decl, df_related_resource_class, nget>>
    /\ UNCHANGED genVars

\* The class's to-one descriptor, as a DeferredField
ClassDeferred(name) ==
    [name |-> name, instance |-> df_instance,
     related_resource_class |-> df_related_resource_class]

\* obj.<name> for a to-one field: DeferredField.__get__
GetDeferred(i, name, outcome) ==
    /\ objs[i] # NoObject
    /\ decl[name].kind = "toOne"
    /\ LET r == DeferredField__get__(ClassDeferred(name), objs[i], outcome, nget + 1)
       IN  /\ nget + Len(r.gets) <= MaxGets
           /\ nget' = nget + Len(r.gets)
           /\ df_instance' = r.df.instance
           /\ df_related_resource_class' = r.df.related_resource_class
           /\ last' = Result("get", i, name, None, r.err, r.ret, r.gets)
           /\ relation' = [relation EXCEPT ![i] = RelationAfterGet(@, r)]
    /\ UNCHANGED <<decl, objs, tm_base_url, bound, assigned>>
    /\ UNCHANGED genVars

\* del obj.<name> for a to-one field: DeferredField.__delete__
Delete(i, name) ==
    /\ objs[i] # NoObject
    /\ decl[name].kind = "toOne"
    /\ df_instance' = None
    /\ last' = Result("del", i, name, None, "ok", None, <<>>)
    /\ relation' = [relation EXCEPT ![i] = RelationAfterDelete(@)]
    /\ UNCHANGED <<decl, objs, df_related_resource_class, tm_base_url, nget, bound, assigned>>
    /\ UNCHANGED genVars

\* deferred_fields[index] of a list of length n: Python's index, or 0 when
\* the index is out of range
ListIndex(index, n) ==
    LET k == IF index < 0 THEN index + n ELSE index
    IN  IF k >= 0 /\ k < n THEN k + 1 ELSE 0

\* obj.<name>[index] for a to-many field: Field.__get__, then
\* DeferredList.__getitem__ with an integer
GetItem(i, name, index, outcome) ==
    /\ objs[i] # NoObject
    /\ decl[name].kind = "toMany"
    /\ name \in DOMAIN objs[i]
    /\ LET value == objs[i][name]
           k     == ListIndex(index, Len(value.items))
       IN  IF value.t # "dlist"
           THEN /\ last' = Result("getitem", i, name, [t |-> "index", idx |-> index],
                                  IF value.t = "list" THEN "IndexError" ELSE "TypeError",
                                  None, <<>>)
                /\ UNCHANGED <<objs, nget>>
           ELSE IF k = 0
           THEN /\ last' = Result("getitem", i, name, [t |-> "index", idx |-> index], "IndexError",
                                  None, <<>>)
                /\ UNCHANGED <<objs, nget>>
           ELSE LET r == DeferredField__get__(value.items[k], objs[i], outcome, nget + 1)
                IN  /\ nget + Len(r.gets) <= MaxGets
                    /\ nget' = nget + Len(r.gets)
                    /\ objs' = [objs EXCEPT ![i][name].items[k] = r.df]
                    /\ last' = Result("getitem", i, name, [t |-> "index", idx |-> index], r.err,
                                      r.ret, r.gets)
    /\ UNCHANGED genVars
    /\ UNCHANGED <<decl, df_instance, df_related_resource_class, tm_base_url,
                   relation, bound, assigned>>

\* The list comprehension of DeferredList.__getitem__ with a slice: elements
\* k..hi of dfs in order, stopping at the first that raises.
\* acc = [dfs, err, ret, gets]
RECURSIVE SliceGets(_, _, _, _, _, _)
SliceGets(acc, d, k, hi, outcomes, n0) ==
    IF k > hi \/ acc.err # "ok" THEN acc
    ELSE LET r == DeferredField__get__(acc.dfs[k], d, outcomes[k], n0 + Len(acc.gets) + 1)
         IN  SliceGets([dfs  |-> [acc.dfs EXCEPT ![k] = r.df],
                        err  |-> r.err,
                        ret  |-> IF r.err = "ok" THEN Append(acc.ret, r.ret) ELSE acc.ret,
                        gets |-> acc.gets \o r.gets],
                       d, k + 1, hi, outcomes, n0)

\* obj.<name>[lo:hi] for a to-many field
GetSlice(i, name, lo, hi, outcomes) ==
    /\ objs[i] # NoObject
    /\ decl[name].kind = "toMany"
    /\ name \in DOMAIN objs[i]
    /\ objs[i][name].t = "dlist"
    /\ LET value == objs[i][name]
           top   == IF hi < Len(value.items) THEN hi ELSE Len(value.items)
           r     == SliceGets([dfs |-> value.items, err |-> "ok", ret |-> <<>>, gets |-> <<>>],
                              objs[i], lo + 1, top, outcomes, nget)
       IN  /\ nget + Len(r.gets) <= MaxGets
           /\ nget' = nget + Len(r.gets)
           /\ objs' = [objs EXCEPT ![i][name].items = r.dfs]
           /\ last' = Result("getslice", i, name,
                             [t |-> "slice", range |-> <<lo, hi>>],
                             r.err, IF r.err = "ok" THEN PyList(r.ret) ELSE None, r.gets)
    /\ UNCHANGED genVars
    /\ UNCHANGED <<decl, df_instance, df_related_resource_class, tm_base_url,
                   relation, bound, assigned>>

AllInputs == UNION { InputsFor(f) : f \in DOMAIN decl }

\* The keyword arguments a caller may pass for the declared fields
Kwargs == UNION { { kw \in [S -> AllInputs] : \A f \in S : kw[f] \in InputsFor(f) } :
                  S \in SUBSET DOMAIN decl }

----------------------------------------------------------------------------
(* Specifications.  Scalar descriptors and the DeferredFields of a to-many  *)
(* list keep no state outside the instance they are used on, so their       *)
(* specifications follow one instance; the to-one descriptor is an object   *)
(* of the class, so its specification follows MaxInst instances.            *)

\* The lazy to-one relation: DeferredField on a class with MaxInst instances
Init == InitOf(ClassesToOne)

Next ==
    \/ \E i \in 1..MaxInst, base_url \in BaseUrls, kwargs \in Kwargs,
          order \in Orders(DOMAIN decl) :
          Construct(i, base_url, kwargs, order)
    \/ \E i \in 1..MaxInst, name \in DOMAIN decl : \E value \in InputsFor(name) :
          Assign(i, name, value)
    \/ \E i \in 1..MaxInst, name \in DOMAIN decl, outcome \in Outcomes :
          GetDeferred(i, name, outcome)
    \/ \E i \in 1..MaxInst, name \in DOMAIN decl :
          Delete(i, name)

Spec == Init /\ [][Next]_vars

\* The scalar fields: construction and assignment
InitField == InitOf(ClassesField)

NextField ==
    \/ \E base_url \in BaseUrls, kwargs \in Kwargs, order \in Orders(DOMAIN decl) :
          Construct(1, base_url, kwargs, order)
    \/ \E name \in DOMAIN decl : \E value \in InputsFor(name) :
          Assign(1, name, value)

SpecField == InitField /\ [][NextField]_vars

\* The to-many relation: ToManyField and DeferredList
InitToMany == InitOf(ClassesToMany)

NextToMany ==
    \/ \E base_url \in BaseUrls, kwargs \in Kwargs, order \in Orders(DOMAIN decl) :
          Construct(1, base_url, kwargs, order)
    \/ \E name \in DOMAIN decl : \E value \in InputsFor(name) :
          Assign(1, name, value)
    \/ \E name \in DOMAIN decl, index \in (-1)..MaxLen, outcome \in Outcomes :
          GetItem(1, name, index, outcome)
    \/ \E name \in DOMAIN decl, lo \in 0..MaxLen, hi \in 0..MaxLen :
          \E outcomes \in [1..MaxLen -> Outcomes] :
             /\ lo <= hi
             /\ \A k \in 1..MaxLen : (k <= lo \/ k > hi) => outcomes[k] = "ok"
             /\ GetSlice(1, name, lo, hi, outcomes)

SpecToMany == InitToMany /\ [][NextToMany]_vars

\* Construction of a resource with two declared fields
InitResource == InitOf(ClassesResource)

NextResource ==
    \E base_url \in BaseUrls, kwargs \in Kwargs, order \in Orders(DOMAIN decl) :
       Construct(1, base_url, kwargs, order)

SpecResource == InitResource /\ [][NextResource]_vars

\* One instance with a to-one and a to-many relation, and the reads of them
InitRelations == InitOf(ClassesRelations)

NextRelations ==
    \/ \E base_url \in BaseUrls, kwargs \in KwargsRelations, order \in Orders(DOMAIN decl) :
          Construct(1, base_url, kwargs, order)
    \/ \E outcome \in Outcomes : GetDeferred(1, "blag", outcome)
    \/ Delete(1, "blag")
    \/ \E index \in (-1)..MaxLen, outcome \in Outcomes : GetItem(1, "posts", index, outcome)
    \/ \E lo \in 0..MaxLen, hi \in 0..MaxLen, outcomes \in [1..MaxLen -> Outcomes] :
          /\ lo < hi
          /\ GetSlice(1, "posts", lo, hi, outcomes)

SpecRelations == InitRelations /\ [][NextRelations]_vars

\* A code-generation run against a service
InitGen ==
    /\ service \in Services
    /\ pc = "start"
    /\ entry_points = <<>>
    /\ resources = <<>>
    /\ fp = NoFile
    /\ gen_gets = <<>>
    /\ nwritten = 0
    /\ decl = <<>>
    /\ objs = <<>>
    /\ df_instance = None
    /\ df_related_resource_class = "None"
    /\ tm_base_url = None
    /\ nget = 0
    /\ last = Result("none", 0, "", None, "ok", None, <<>>)
    /\ relation = <<>>
    /\ bound = <<>>
    /\ assigned = <<>>

FetchOutcomes == {"ok", "fail"}

NextGen ==
    \/ \E base_url \in ClientBaseUrls, outcome \in FetchOutcomes,
          order \in Orders({service.names[k] : k \in DOMAIN service.names}) :
          GetEntryPoints(base_url, outcome, order)
    \/ \E base_url \in ClientBaseUrls, outcome \in FetchOutcomes,
          order \in UNION { Orders(1..n) : n \in 0..MaxFields } :
          NewResource(base_url, outcome, order)
    \/ \E now \in Timestamps : OpenFile("myclient", now)
    \/ WriteResource
    \/ CloseFile

SpecGen == InitGen /\ [][NextGen]_vars

----------------------------------------------------------------------------
(* Properties *)

\* The ValueErrors a field's __set__ raises (the specification's ValidationError)
ValidationErrors == {"nonnull", "readonly", "uuid", "datetime", "tomany_list", "deferred_url"}

UrlStrings == {UrlBlag1, UrlPost1, UrlPost2Abs, UrlNoMatch}

\* Whether the specification counts value as valid for a field declared fl
ValidFor(fl, value) ==
    IF value = None THEN fl.nullable
    ELSE CASE fl.kind = "string"   -> TRUE
           [] fl.kind = "boolean"  -> TRUE
           [] fl.kind = "datetime" -> IsString(value) /\ value.v = DateStr
           [] fl.kind = "uuid"     -> value.t = "uuid" \/ (IsString(value) /\ UuidHex(value.v) # "")
           [] fl.kind = "toOne"    -> IsString(value) /\ value.v \in UrlStrings
           [] fl.kind = "toMany"   -> /\ value.t = "list"
                                      /\ \A k \in DOMAIN value.items :
                                            IsString(value.items[k]) /\ value.items[k].v \in UrlStrings

\* The URL a read of the to-one field name on instance i has to request
OwnUrl(i, name) == GettableUrl(objs[i]["base_url"].v, objs[i][name].v)

\* A step that reads the to-one field of instance i, bound to a URL
ReadsToOne(i) ==
    /\ last'.op = "get" /\ last'.inst = i
    /\ Truthy(objs[i][last'.field])

\* C1: the first read of a to-one field bound to a URL issues exactly one
\* GET, to the URL resolved against the instance's base_url, and returns the
\* instance built from it; a later read of the field on that instance, with no
\* write or invalidation in between, issues no GET and returns the same instance.
C1_FirstReadOneGetThenCached ==
    [][\A i \in 1..MaxInst : ReadsToOne(i) =>
          /\ relation[i].st = "pending" =>
                /\ last'.gets = <<OwnUrl(i, last'.field)>>
                /\ last'.err = "ok" =>
                      /\ last'.ret.t = "resource"
                      /\ last'.ret.attrs.url = OwnUrl(i, last'.field)
          /\ relation[i].st = "resolved" =>
                /\ last'.gets = <<>>
                /\ last'.ret = relation[i].obj]_vars

\* C2: the lazy state of a to-one field belongs to one instance: a read on an
\* instance returns the instance resolved from that instance's own bound
\* URL, never one cached for another instance.
C2_ReadReturnsOwnRelation ==
    (last.op = "get" /\ last.err = "ok" /\ Truthy(objs[last.inst][last.field]))
        => /\ last.ret.t = "resource"
           /\ last.ret.attrs.url = OwnUrl(last.inst, last.field)

\* C3: setting a new URL on a resolved to-one field invalidates the cached
\* instance: the next read of the field on that instance issues exactly one
\* GET, for the new URL, and returns the instance built from that response,
\* not the one cached before.
C3_ResetForcesOneNewGet ==
    [][\A i \in 1..MaxInst :
          /\ (last'.op = "set" /\ last'.inst = i /\ last'.err = "ok"
              /\ relation[i].st = "resolved") => df_instance' = None
          /\ (ReadsToOne(i) /\ relation[i].st = "reset") =>
                /\ last'.gets = <<OwnUrl(i, last'.field)>>
                /\ last'.err = "ok" =>
                      /\ last'.ret.attrs.url = OwnUrl(i, last'.field)
                      /\ last'.ret # relation[i].obj]_vars

\* C4: deleting a to-one field clears only the cached instance: the bound
\* URL stays, and the next read of the field on that instance issues a new
\* GET for that URL; deleting a field that is not resolved changes nothing.
C4_DeleteClearsOnlyOwnCache ==
    [][\A i \in 1..MaxInst :
          /\ (last'.op = "del" /\ last'.inst = i) =>
                /\ objs' = objs
                /\ relation[i].st \in {"pending", "reset", "invalidated"} =>
                      /\ df_instance' = df_instance
                      /\ df_related_resource_class' = df_related_resource_class
          /\ (ReadsToOne(i) /\ relation[i].st = "invalidated") =>
                last'.gets = <<OwnUrl(i, last'.field)>>]_vars

\* The URL element k (1-based) of the to-many list instance i was bound to
\* has to request
BoundUrl(i, k) == GettableUrl(objs[i]["base_url"].v, bound[i][k])

\* The GETs a slice lo+1..hi of the list dfs has to issue: one per element
\* not resolved yet, in list order
RECURSIVE SliceUrls(_, _, _, _)
SliceUrls(i, dfs, k, hi) ==
    IF k > hi THEN <<>>
    ELSE (IF Truthy(dfs[k].instance) THEN <<>> ELSE <<BoundUrl(i, k)>>)
         \o SliceUrls(i, dfs, k + 1, hi)

Min(a, b) == IF a < b THEN a ELSE b

\* C5: resolving element i of a to-many field by index issues exactly one
\* GET, for the i-th URL the field is bound to, and leaves every other
\* element as it was; a slice issues GETs only for the elements inside it
\* that are not resolved yet and returns their instances in list order.
C5_ElementsResolveIndependently ==
    [][\A i \in 1..MaxInst :
          LET name == last'.field
              dfs  == objs[i][name].items
          IN  /\ (last'.op = "getitem" /\ last'.inst = i
                  /\ last'.err \notin {"IndexError", "TypeError"}) =>
                    LET k == ListIndex(last'.arg.idx, Len(dfs))
                    IN  /\ ~Truthy(dfs[k].instance) => last'.gets = <<BoundUrl(i, k)>>
                        /\ Truthy(dfs[k].instance) => last'.gets = <<>>
                        /\ \A j \in DOMAIN dfs : j # k => objs'[i][name].items[j] = dfs[j]
              /\ (last'.op = "getslice" /\ last'.inst = i /\ last'.err = "ok") =>
                    LET lo == last'.arg.range[1]
                        hi == Min(last'.arg.range[2], Len(dfs))
                    IN  /\ last'.gets = SliceUrls(i, dfs, lo + 1, hi)
                        /\ Len(last'.ret.items) = (IF hi > lo THEN hi - lo ELSE 0)
                        /\ \A j \in DOMAIN last'.ret.items :
                              last'.ret.items[j].attrs.url = BoundUrl(i, lo + j)
                        /\ \A j \in DOMAIN dfs :
                              (j <= lo \/ j > hi) => objs'[i][name].items[j] = dfs[j]]_vars

\* C6: for every field kind, assigning null to a field declared
\* non-nullable fails with ValidationError and stores nothing, at
\* construction as well as later.
C6_NullToNonNullableFails ==
    [][/\ (last'.op = "set" /\ last'.arg = None /\ ~decl[last'.field].nullable) =>
             /\ last'.err \in ValidationErrors
             /\ objs' = objs
       /\ (last'.op = "init"
           /\ \E f \in DOMAIN last'.arg.kw : ~decl[f].nullable /\ last'.arg.kw[f] = None) =>
             /\ last'.err \in ValidationErrors
             /\ objs'[last'.inst] = NoObject]_vars

\* What a field of an instance holds: its slot and, for a to-many list, the
\* URLs its elements are bound to
Holds(d, name) ==
    IF name \in DOMAIN d /\ d[name].t = "dlist"
    THEN <<d[name], [k \in DOMAIN d[name].items |-> d[d[name].items[k].name]]>>
    ELSE <<KwargsGet(d, name), <<>>>>

\* C7: on a readonly field the first assignment of a valid non-null value
\* succeeds, and every later non-null assignment on that instance fails with
\* ValidationError and leaves what the field holds as the first left it.
C7_ReadonlyAssignedOnce ==
    [][(last'.op = "set" /\ decl[last'.field].readonly /\ last'.arg # None) =>
          LET i == last'.inst
              f == last'.field
          IN  /\ (assigned[i][f] = "none" /\ ValidFor(decl[f], last'.arg)) =>
                    last'.err = "ok"
              /\ assigned[i][f] = "assigned" =>
                    /\ last'.err \in ValidationErrors
                    /\ Holds(objs'[i], f) = Holds(objs[i], f)]_vars

\* bool(value), and for text: false for "false" in any letter case, true otherwise
CoercedBool(value) ==
    IF IsString(value)
    THEN PyBool(IF Lower(value.v) = "false" THEN "False" ELSE "True")
    ELSE PyBool(IF Truthy(value) THEN "True" ELSE "False")

\* C8: a boolean field stores false for the text "false" in any letter
\* case, true for any other text, and bool(value) for a non-null value that
\* is not text.
C8_BooleanCoercion ==
    (last.op = "set" /\ decl[last.field].kind = "boolean" /\ last.err = "ok"
     /\ last.arg # None)
        => objs[last.inst][last.field] = CoercedBool(last.arg)

\* C9: a uuid field accepts exactly a typed UUID (stored as it is), a
\* well-formed UUID string (stored as the equal typed UUID) and, when
\* nullable, null; every other value fails with ValidationError and is not
\* stored.
C9_UuidCoercion ==
    [][(last'.op = "set" /\ decl[last'.field].kind = "uuid") =>
          LET i     == last'.inst
              f     == last'.field
              value == last'.arg
              blocked == decl[f].readonly /\ objs[i][f] # None
          IN  IF ValidFor(decl[f], value)
              THEN ~blocked =>
                      /\ last'.err = "ok"
                      /\ objs'[i][f] = (IF IsString(value) THEN PyUUID(UuidHex(value.v))
                                        ELSE value)
              ELSE /\ last'.err \in ValidationErrors
                   /\ objs' = objs]_vars

\* C10: constructing a resource without a value for a required field fails
\* with RequiredFieldError and leaves no instance; constructing it with every
\* required field supplied, and the supplied values valid, succeeds and gives
\* every declared field a value slot.
C10_ConstructionNeedsRequiredOnly ==
    last.op = "init" =>
        LET kwargs == last.arg.kw
            obj    == objs[last.inst]
        IN  /\ (\E f \in DOMAIN decl : decl[f].required /\ f \notin DOMAIN kwargs) =>
                  /\ last.err = "required"
                  /\ obj = NoObject
            /\ ( /\ \A f \in DOMAIN decl : decl[f].required => f \in DOMAIN kwargs
                 /\ \A f \in DOMAIN kwargs : ValidFor(decl[f], kwargs[f]) ) =>
                  /\ last.err = "ok"
                  /\ obj # NoObject
                  /\ \A f \in DOMAIN decl : f \in DOMAIN obj

\* The lines a step of the generator adds to the output file
Added == SubSeq(fp'.lines, Len(fp.lines) + 1, Len(fp'.lines))

\* The name of a field ends in the token "uuid"
UuidNamed(f) == \E i \in 1..Len(f.name) : SubSeq(f.name, i, Len(f.name)) = "uuid"

\* The field class of a declared schema type, "" for a type that has none
ClassOfType(f) ==
    CASE f.type = "string"   -> "CharField"
      [] f.type = "boolean"  -> "BooleanField"
      [] f.type = "datetime" -> "DateTimeField"
      [] f.type = "related" /\ f.related_type = "to_one"  -> "DeferredField"
      [] f.type = "related" /\ f.related_type = "to_many" -> "ToManyField"
      [] OTHER -> ""

\* The class a field has to be emitted as, "" when the type has none
EmittedAs(f) == IF UuidNamed(f) THEN "UUIDField" ELSE ClassOfType(f)

\* line declares the field called name
Declares(line, name) ==
    /\ Len(line) >= Len(tab_chars) + Len(name) + 3
    /\ SubSeq(line, 1, Len(tab_chars) + Len(name) + 3) = tab_chars \o name \o " = "

\* C11: in code generation a field whose name ends in "uuid" is emitted as
\* a UUIDField whatever its declared type, known to the generator or not, and
\* a field whose name does not end in "uuid" is emitted as the field class of
\* its declared type; writing a resource fails only on a field that is not
\* named uuid and whose type has no field class.
C11_UuidNameDecidesFieldClass ==
    [][(pc = "writing" /\ nwritten' = nwritten + 1) =>
          LET fields == resources[nwritten + 1].schema.fields
              fs     == { fields[k] : k \in DOMAIN fields }
          IN  /\ \A f \in fs : \A k \in DOMAIN Added :
                    (Declares(Added[k], f.name) /\ EmittedAs(f) # "") =>
                        Added[k] = tab_chars \o f.name \o " = " \o EmittedAs(f) \o "(\n"
              /\ pc' # "aborted" =>
                    \A f \in fs : \E k \in DOMAIN Added :
                        Added[k] = tab_chars \o f.name \o " = " \o EmittedAs(f) \o "(\n"
              /\ pc' = "aborted" => \E f \in fs : EmittedAs(f) = ""]_vars

\* A field called owner_uuid and declared with a type the generator does
\* not know has been written as a UUIDField.
C11_Witness ==
    /\ pc = "done"
    /\ \E r \in DOMAIN resources : \E k \in DOMAIN resources[r].schema.fields :
          /\ resources[r].schema.fields[k].name = "owner_uuid"
          /\ resources[r].schema.fields[k].type = "integer"
    /\ \E k \in DOMAIN fp.lines : fp.lines[k] = "    owner_uuid = UUIDField(\n"

\* The resource with the fields of its schema in another iteration order
Reordered(resource, order) ==
    [resource EXCEPT !.schema.fields = [k \in DOMAIN @ |-> @[order[k]]]]

\* C12: the field declarations of a resource are emitted in lexicographic
\* order of field name, and the text written for the resource is the same for
\* every order in which the schema's fields can arrive.
C12_FieldsInNameOrder ==
    [][(pc = "writing" /\ nwritten' = nwritten + 1) =>
          LET resource == resources[nwritten + 1]
              fields   == resource.schema.fields
              fs       == { fields[k] : k \in DOMAIN fields }
          IN  /\ \A j, k \in DOMAIN Added : \A f, g \in fs :
                    (j < k /\ Declares(Added[j], f.name) /\ Declares(Added[k], g.name))
                        => StrLess(f.name, g.name)
              /\ \A order \in Orders(DOMAIN fields) :
                    _write_resource(Reordered(resource, order)).code = Added]_vars

\* A resource whose schema lists uuid before name has been written, with
\* name declared before uuid.
C12_Witness ==
    /\ pc = "done"
    /\ Len(resources) = 1
    /\ service.fields[1] = <<FieldDoc("uuid", "string", "None"), FieldDoc("name", "boolean", "None")>>
    /\ resources[1].schema.fields = service.fields[1]
    /\ \E j, k \in DOMAIN fp.lines :
          /\ j < k
          /\ fp.lines[j] = "    name = BooleanField(\n"
          /\ fp.lines[k] = "    uuid = UUIDField(\n"

\* The GETs of a complete run: the entry points, then the schema of each
\* entry point in the order the entry points are iterated
RECURSIVE AllFetches(_, _)
AllFetches(base_url, names) ==
    IF names = <<>> THEN <<base_url>>
    ELSE Append(AllFetches(base_url, SubSeq(names, 1, Len(names) - 1)),
                "http://host/api/v1/" \o names[Len(names)] \o "/schema/")

\* C13: every fetch of a code-generation run, the entry points and one
\* schema per entry point, is over before the output file is opened: a file
\* exists only after all of them succeeded, a failed fetch ends the run with
\* no file, and no step that finds the file open issues a GET.
C13_FetchesBeforeOutput ==
    [][/\ fp'.state # "none" =>
             /\ \E base_url \in ClientBaseUrls : gen_gets' = AllFetches(base_url, entry_points')
             /\ Len(resources') = Len(entry_points')
             /\ \A k \in DOMAIN entry_points' : \E j \in DOMAIN service.names :
                   service.names[j] = entry_points'[k]
             /\ Len(entry_points') = Len(service.names)
       /\ fp.state # "none" => gen_gets' = gen_gets
       /\ (gen_gets' # gen_gets /\ pc' = "aborted") => (fp' = NoFile /\ nwritten' = 0)
       /\ (pc = "aborted" /\ nwritten = 0) => fp' = NoFile]_vars

\* The fetch of the second resource's schema has failed: the run is over
\* and there is no output file.
C13_Witness ==
    /\ pc = "aborted"
    /\ Len(entry_points) = 2
    /\ Len(resources) = 1
    /\ Len(gen_gets) = 3
    /\ fp = NoFile

\* The subclasses of every class of a list, in the order of the list
RECURSIVE SubclassesOfAll(_)
SubclassesOfAll(classes) ==
    IF classes = <<>> THEN <<>>
    ELSE Subclasses(Head(classes)) \o SubclassesOfAll(Tail(classes))

\* The registered classes generation by generation: the subclasses of
\* Resource, then their subclasses, and so on
RECURSIVE BreadthFirst(_)
BreadthFirst(classes) ==
    IF classes = <<>> THEN <<>> ELSE classes \o BreadthFirst(SubclassesOfAll(classes))

\* The registered classes, a class before its own subclasses and those
\* before the classes registered after it
RECURSIVE DepthFirst(_)
DepthFirst(classes) ==
    IF classes = <<>> THEN <<>>
    ELSE <<Head(classes)>> \o DepthFirst(Subclasses(Head(classes))) \o DepthFirst(Tail(classes))

\* The first class of a list whose list_endpoint is a prefix of path
FirstMatch(classes, path) ==
    IF \E k \in DOMAIN classes : StartsWith(path, list_endpoint(classes[k]))
    THEN classes[CHOOSE k \in DOMAIN classes :
                    /\ StartsWith(path, list_endpoint(classes[k]))
                    /\ \A j \in 1..(k - 1) : ~StartsWith(path, list_endpoint(classes[j]))]
    ELSE "None"

\* A read of a to-one field that fetched the resource and built the
\* instance, with no related class known to the descriptor beforehand
InfersClass ==
    /\ last'.op = "get" /\ last'.err = "ok" /\ last'.gets # <<>>
    /\ df_related_resource_class = "None"

ResolvedOf(d, cache) ==
    { <<"blag", cache>> : x \in { y \in {cache} : Truthy(y) } }
    \cup (IF "posts" \in DOMAIN d /\ d["posts"].t = "dlist"
          THEN { <<d["posts"].items[k].name, d["posts"].items[k].instance>> :
                    k \in { j \in DOMAIN d["posts"].items : d["posts"].items[j].instance # None } }
          ELSE {})

\* The errors of a read that could not resolve its relation: the fetch
\* failed, or no class was found for the URL
ResolutionErrors == {"fetch", "TypeError"}

\* No registered class has a list_endpoint that is a prefix of the path of
\* the URL bound under name on the instance with __dict__ d
NoClassFor(d, name) ==
    FirstMatch(BreadthFirst(Subclasses("Resource")),
               GettableUrl(d["base_url"].v, d[name].v).path) = "None"

C16_ClassInferredPerResolution ==
    [][\A i \in 1..MaxInst :
          (ReadsToOne(i) /\ relation[i].st = "reset" /\ last'.gets # <<>>
           /\ last'.err = "ok" /\ decl[last'.field].related_resource_class = "None")
             => last'.ret.attrs.cls = get_related_resource_class(OwnUrl(i, last'.field))]_vars

C18_FailedAssignmentChangesNothing ==
    [][\A i \in 1..MaxInst :
          /\ (last'.op = "set" /\ last'.inst = i /\ last'.err \in ValidationErrors) =>
                \A f \in DOMAIN decl : Holds(objs'[i], f) = Holds(objs[i], f)
          /\ (last'.op = "getitem" /\ last'.inst = i /\ last'.arg.idx = 0
              /\ last.op = "set" /\ last.inst = i /\ last.err \in ValidationErrors
              /\ last'.gets # <<>>) =>
                last'.gets = <<BoundUrl(i, 1)>>]_vars

\* C19: constructing an instance without a value for a nullable to-one
\* field that is not required succeeds and leaves the field Unset; reading
\* the field of such an instance returns null and issues no GET.
C19_OmittedNullableToOneIsUnset ==
    [][\A i \in 1..MaxInst, f \in DOMAIN decl :
          (decl[f].kind = "toOne" /\ decl[f].nullable /\ ~decl[f].required) =>
             /\ (last'.op = "init" /\ last'.inst = i /\ f \notin DOMAIN last'.arg.kw) =>
                   /\ last'.err = "ok"
                   /\ objs'[i] # NoObject
                   /\ KwargsGet(objs'[i], f) = None
             /\ (last'.op = "get" /\ last'.inst = i /\ last'.field = f
                 /\ last.op = "init" /\ last.inst = i /\ f \notin DOMAIN last.arg.kw) =>
                   /\ last'.ret = None
                   /\ last'.gets = <<>>]_vars

\* An ordered sequence whose elements are all strings; the empty one included
SequenceOfStrings(value) ==
    /\ value.t \in {"list", "tuple"}
    /\ \A k \in DOMAIN value.items : IsString(value.items[k])

\* C20: a to-many write of a non-null value succeeds only for an ordered
\* sequence of URL strings (or an empty one), and then the field holds one
\* deferred relation per URL, in order: its length is the number of URLs
\* and element k is bound to the k-th URL; a write of any other value fails
\* with ValidationError.
C20_ToManyWriteNeedsUrlSequence ==
    [][(last'.op = "set" /\ decl[last'.field].kind = "toMany" /\ last'.arg # None) =>
          LET d     == objs'[last'.inst]
              f     == last'.field
              value == last'.arg
          IN  /\ last'.err = "ok" =>
                    /\ SequenceOfStrings(value)
                    /\ d[f].t = "dlist"
                    /\ Len(d[f].items) = Len(value.items)
                    /\ \A k \in DOMAIN value.items : d[d[f].items[k].name] = value.items[k]
              /\ ~SequenceOfStrings(value) => last'.err \in ValidationErrors]_vars

\* The declaration line of a field emitted as field_cls
DeclaredAs(f, field_cls) == tab_chars \o FieldLine(f.name, field_cls) \o "\n"

C22_ClassesInListingOrder ==
    [][(pc = "writing" /\ nwritten' = nwritten + 1) =>
          /\ resources[nwritten + 1].name = service.names[nwritten + 1]
          /\ Added[1] = ClassLine(service.names[nwritten + 1]) \o "\n"]_vars

\* C23: a string field stores the empty string for null and for the empty
\* string, and the text form of every other value, the values 0 and False
\* included.
C23_StringCoercion ==
    (last.op = "set" /\ decl[last.field].kind = "string" /\ last.err = "ok")
        => objs[last.inst][last.field] =
              (IF last.arg = None \/ last.arg = PyStr("") THEN PyStr("") ELSE Unicode(last.arg))

====
